---------------------------- MODULE Spec2Model ----------------------------
(***************************************************************************)
(* Model of the lifetimekata exercises that carry behaviour:               *)
(*   - exercises/08_finale: Matcher::new (pattern scan loop) and           *)
(*     Matcher::match_string (greedy token matching, most_tokens_matched)  *)
(*   - exercises/06_lifetimes_on_impls: WordIterator::new / next_word      *)
(*                                                                         *)
(* A Rust &str is modelled as the sequence of its UTF-8 bytes.  ASCII      *)
(* bytes are written as one-character strings ("a", ".", "(", ...); the    *)
(* two-byte character U+00E9 is the byte pair <<"C3", "A9">>.  Byte        *)
(* offsets, char boundaries, len() and chars().count() are computed on     *)
(* that byte sequence, as the standard library computes them.              *)
(***************************************************************************)
EXTENDS Integers, Sequences, FiniteSets

\* ------------------------------------------------------------------ bounds
\* Longest pattern (in characters) given to Matcher::new in NewSpec.
MaxScanLen == 5
\* Capacity of the token vector in the model: a push beyond it aborts.
MaxTokens == 7
\* Longest pattern (in characters) given to Matcher::new in Spec.
MaxPatLen == 5
\* Longest candidate (in characters) given to match_string.
MaxCandLen == 3
\* Longest pattern and candidate (in characters) in CounterSpec.
MaxCounterPatLen == 4
MaxCounterCandLen == 2
\* Longest string (in characters) given to WordIterator::new.
MaxWordsLen == 4

\* -------------------------------------------------------------- characters
E9 == <<"C3", "A9">>

\* Pattern characters of NewSpec: every marker, the bytes of "[.(]", a plain
\* letter and a two-byte character.
ScanChars == { <<"a">>, <<".">>, <<"(">>, <<")">>, <<"|">>, <<"[">>, <<"]">>, E9 }
\* Pattern characters of Spec.
PatChars == { <<"a">>, <<".">>, <<"(">>, <<")">>, <<"|">>, E9 }
\* Candidate characters of Spec.
CandChars == { <<"a">>, <<"(">>, E9 }
\* Characters of the strings given to WordIterator::new.
WordChars == { <<"a">>, <<" ">>, E9 }

RECURSIVE StrsOfLen(_, _)
StrsOfLen(chars, n) ==
  IF n = 0 THEN { <<>> }
  ELSE { s \o c : s \in StrsOfLen(chars, n - 1), c \in chars }

\* All strings of at most n characters over chars, as byte sequences.
Strs(chars, n) == UNION { StrsOfLen(chars, k) : k \in 0..n }

\* ------------------------------------------------------- Option and str API
None == <<>>
Some(x) == <<x>>

\* A UTF-8 continuation byte (10xxxxxx).
IsContinuation(b) == b = "A9"

\* str::is_char_boundary, i a 0-based byte offset.
IsCharBoundary(s, i) ==
  \/ i = 0
  \/ i = Len(s)
  \/ i < Len(s) /\ ~IsContinuation(s[i + 1])

\* &s[i..] is defined (does not panic).
CanSliceFrom(s, i) == i <= Len(s) /\ IsCharBoundary(s, i)

\* &s[i..]
SliceFrom(s, i) == SubSeq(s, i + 1, Len(s))

\* &s[..i]
SliceTo(s, i) == SubSeq(s, 1, i)

\* str::starts_with
StartsWith(s, p) == Len(p) <= Len(s) /\ SubSeq(s, 1, Len(p)) = p

\* str::find(&str): the least byte offset at which p occurs in s.
Find(s, p) ==
  LET hits == { i \in 0..Len(s) : StartsWith(SliceFrom(s, i), p) }
  IN IF hits = {} THEN None
     ELSE Some(CHOOSE i \in hits : \A j \in hits : i <= j)

\* str::chars().count(): the bytes that start a character.
CharsCount(s) == Cardinality({ i \in 1..Len(s) : ~IsContinuation(s[i]) })

\* char::len_utf8 of the character whose first byte is b.
LenUtf8(b) == IF b = "C3" THEN 2 ELSE 1

\* str::split(sep).collect(): the pieces between the occurrences of byte sep.
RECURSIVE Split(_, _)
Split(s, sep) ==
  LET at == Find(s, <<sep>>)
  IN IF at = None THEN << s >>
     ELSE << SliceTo(s, at[1]) >> \o Split(SliceFrom(s, at[1] + 1), sep)

\* ------------------------------------------------------------ MatcherToken
RawText(t) == [kind |-> "RawText", list |-> << t >>]
OneOfText(l) == [kind |-> "OneOfText", list |-> l]
WildCard == [kind |-> "WildCard", list |-> << >>]

VARIABLES
  text,                 \* Matcher::new's argument, then Matcher.text
  text_under_analysis,  \* new: the text still to be analysed
  tokens,               \* new: the tokens pushed so far, then Matcher.tokens
  pc,                   \* "new" | "None" | "Some" | "panic" | "abort" | "off"
  most_tokens_matched,  \* Matcher.most_tokens_matched
  candidate,            \* the argument of the last match_string call
  matched_tokens,       \* the result of the last match_string call
  result_lens,          \* the result lengths of all match_string calls that returned
  string,               \* WordIterator.string
  position,             \* WordIterator.position
  word,                 \* the value of the last next_word call
  words,                \* the words returned so far, in order
  wpc                   \* "ready" | "panic" | "off"

matcherVars == << text, text_under_analysis, tokens, pc, most_tokens_matched,
                  candidate, matched_tokens, result_lens >>
wordVars == << string, position, word, words, wpc >>
vars == << text, text_under_analysis, tokens, pc, most_tokens_matched,
           candidate, matched_tokens, result_lens,
           string, position, word, words, wpc >>

\* ------------------------------------------------------------ Matcher::new
\* The state on entry to Matcher::new(p): nothing analysed, no token pushed.
NewEntry(p) ==
  /\ text = p
  /\ text_under_analysis = p
  /\ tokens = << >>
  /\ pc = "new"
  /\ most_tokens_matched = 0
  /\ candidate = << >>
  /\ matched_tokens = << >>
  /\ result_lens = {}

NoMatcher ==
  /\ text = << >>
  /\ text_under_analysis = << >>
  /\ tokens = << >>
  /\ pc = "off"
  /\ most_tokens_matched = 0
  /\ candidate = << >>
  /\ matched_tokens = << >>
  /\ result_lens = {}

NoWordIterator ==
  /\ string = << >>
  /\ position = 0
  /\ word = None
  /\ words = << >>
  /\ wpc = "off"

\* tokens.push(t); out of memory aborts the process.
Push(t, rest) ==
  IF Len(tokens) < MaxTokens
  THEN /\ tokens' = Append(tokens, t)
       /\ text_under_analysis' = rest
       /\ pc' = "new"
  ELSE /\ pc' = "abort"
       /\ UNCHANGED << tokens, text_under_analysis >>

\* The '.' arm: push WildCard and drop one byte.
WildCardArm == Push(WildCard, SliceFrom(text_under_analysis, 1))

\* The alternatives of a group whose ')' is at byte offset close_token.
AlternativeText(close_token) == SliceTo(text_under_analysis, close_token)

\* The '(' arm: up to the first ')' is split on '|'; no ')' fails the parse.
GroupArm ==
  LET close_token == Find(text_under_analysis, << ")" >>)
  IN IF close_token # None
     THEN Push(OneOfText(Split(AlternativeText(close_token[1]), "|")),
               SliceFrom(SliceFrom(text_under_analysis, close_token[1]), 1))
     ELSE /\ pc' = "None"
          /\ UNCHANGED << tokens, text_under_analysis >>

\* What the literal arm searches the text for.
LiteralEnd(s) == Find(s, << "[", ".", "(", "]" >>)

\* The `_` arm: a RawText up to the place LiteralEnd finds; nothing otherwise.
LiteralArm ==
  LET next_token == LiteralEnd(text_under_analysis)
  IN IF next_token # None
     THEN Push(RawText(SliceTo(text_under_analysis, next_token[1])),
               SliceFrom(text_under_analysis, next_token[1]))
     ELSE UNCHANGED << tokens, text_under_analysis, pc >>

\* One evaluation of the while condition and, when it holds, of the loop body.
NewStep ==
  /\ pc = "new"
  /\ IF text_under_analysis = << >>
     THEN /\ pc' = "Some"
          /\ UNCHANGED << tokens, text_under_analysis >>
     ELSE IF StartsWith(text_under_analysis, << "." >>) THEN WildCardArm
     ELSE IF StartsWith(text_under_analysis, << "(" >>) THEN GroupArm
     ELSE IF StartsWith(text_under_analysis, << ")" >>)
     THEN /\ pc' = "None"
          /\ UNCHANGED << tokens, text_under_analysis >>
     ELSE LiteralArm
  /\ UNCHANGED << text, most_tokens_matched, candidate, matched_tokens, result_lens >>
  /\ UNCHANGED wordVars


\* --------------------------------------------------- Matcher::match_string
\* A pair of the result: the token and the matched slice of the candidate (its
\* bytes, and the byte offset in the candidate at which the slice starts).
Pair(token, c, str_under_analysis, byte_offset) ==
  [token |-> token,
   str |-> SliceTo(str_under_analysis, byte_offset),
   at |-> Len(c) - Len(str_under_analysis)]

\* list_value.iter().find(|value| str_under_analysis.starts_with(value))
FirstMatching(list_value, str_under_analysis) ==
  LET hits == { i \in 1..Len(list_value) : StartsWith(str_under_analysis, list_value[i]) }
  IN IF hits = {} THEN None
     ELSE Some(list_value[CHOOSE i \in hits : \A j \in hits : i <= j])

\* How far the OneOfText arm moves the cursor after matching matched_str.
OneOfAdvance(matched_str) == CharsCount(matched_str)

\* The for loop over self.tokens from token i on: the pairs pushed, or a panic.
RECURSIVE MatchLoop(_, _, _, _, _)
MatchLoop(toks, i, c, str_under_analysis, matched) ==
  IF i > Len(toks) THEN [panic |-> FALSE, matched |-> matched]
  ELSE
    LET token == toks[i] IN
    IF token.kind = "WildCard" THEN
      \* chars().next().unwrap()
      IF str_under_analysis = << >> THEN [panic |-> TRUE, matched |-> << >>]
      ELSE LET byte_offset == LenUtf8(str_under_analysis[1])
           IN MatchLoop(toks, i + 1, c, SliceFrom(str_under_analysis, byte_offset),
                        Append(matched, Pair(token, c, str_under_analysis, byte_offset)))
    ELSE IF token.kind = "OneOfText" THEN
      LET found == FirstMatching(token.list, str_under_analysis) IN
      IF found = None THEN [panic |-> FALSE, matched |-> matched]
      ELSE LET matched_str == found[1]
               byte_offset == Len(matched_str)
           IN IF ~CanSliceFrom(str_under_analysis, OneOfAdvance(matched_str))
              THEN [panic |-> TRUE, matched |-> << >>]
              ELSE MatchLoop(toks, i + 1, c,
                             SliceFrom(str_under_analysis, OneOfAdvance(matched_str)),
                             Append(matched, Pair(token, c, str_under_analysis, byte_offset)))
    ELSE
      LET value == token.list[1] IN
      IF StartsWith(str_under_analysis, value)
      THEN MatchLoop(toks, i + 1, c, SliceFrom(str_under_analysis, Len(value)),
                     Append(matched, Pair(token, c, str_under_analysis, Len(value))))
      ELSE [panic |-> FALSE, matched |-> matched]

\* A wrong update: the counter follows the last result.
UpdateMostLast(most, n) == n

\* The update of most_tokens_matched after the loop, for a result of n pairs.
UpdateMost(most, n) == IF n > most THEN n ELSE most

\* match_string(c) on the Matcher that new returned.
MatchString(c) ==
  /\ pc = "Some"
  /\ LET r == MatchLoop(tokens, 1, c, c, << >>) IN
     IF r.panic
     THEN /\ pc' = "panic"
          /\ candidate' = c
          /\ UNCHANGED << matched_tokens, most_tokens_matched, result_lens >>
     ELSE /\ pc' = "Some"
          /\ candidate' = c
          /\ matched_tokens' = r.matched
          /\ most_tokens_matched' = UpdateMost(most_tokens_matched, Len(r.matched))
          /\ result_lens' = result_lens \cup { Len(r.matched) }
  /\ UNCHANGED << text, text_under_analysis, tokens >>
  /\ UNCHANGED wordVars

\* ------------------------------------------------------------ WordIterator
\* WordIterator::new(s)
WordIteratorNew(s) ==
  /\ string = s
  /\ position = 0
  /\ word = None
  /\ words = << >>
  /\ wpc = "ready"

\* next_word(): the slice from position panics when position is past the end.
NextWord ==
  /\ wpc = "ready"
  /\ IF ~CanSliceFrom(string, position)
     THEN /\ wpc' = "panic"
          /\ UNCHANGED << position, word, words >>
     ELSE LET start_of_word == SliceFrom(string, position)
              found == Find(start_of_word, << " " >>)
              index_of_next_space == IF found = None THEN Len(start_of_word) ELSE found[1]
          IN IF Len(start_of_word) # 0
             THEN /\ position' = position + index_of_next_space + 1
                  /\ word' = Some(SliceTo(start_of_word, index_of_next_space))
                  /\ words' = Append(words, SliceTo(start_of_word, index_of_next_space))
                  /\ wpc' = "ready"
             ELSE /\ word' = None
                  /\ UNCHANGED << position, words, wpc >>
  /\ UNCHANGED string
  /\ UNCHANGED matcherVars

\* ---------------------------------------------------------- specifications
\* Matcher: new on a pattern, then any number of match_string calls.
Init == (\E p \in Strs(PatChars, MaxPatLen) : NewEntry(p)) /\ NoWordIterator

Next ==
  \/ NewStep
  \/ \E c \in Strs(CandChars, MaxCandLen) : MatchString(c)

Spec == Init /\ [][Next]_vars

\* The same life of a Matcher on shorter inputs, for the claims about the
\* counter over sequences of calls.
InitCounter == (\E p \in Strs(PatChars, MaxCounterPatLen) : NewEntry(p)) /\ NoWordIterator

NextCounter ==
  \/ NewStep
  \/ \E c \in Strs(CandChars, MaxCounterCandLen) : MatchString(c)

CounterSpec == InitCounter /\ [][NextCounter]_vars

\* Matcher::new alone, on patterns over every character the scan tells apart.
\* new runs to completion on its thread: its loop is never starved.
InitNew == (\E p \in Strs(ScanChars, MaxScanLen) : NewEntry(p)) /\ NoWordIterator

NextNew == NewStep

NewSpec == InitNew /\ [][NextNew]_vars /\ WF_vars(NewStep)

\* WordIterator: new on a string, then any number of next_word calls.
InitWords == (\E s \in Strs(WordChars, MaxWordsLen) : WordIteratorNew(s)) /\ NoMatcher

NextWords == NextWord

WordSpec == InitWords /\ [][NextWords]_vars


\* ------------------------------------------------------------------ claims
\* A '(' of p with no ')' anywhere after it.
UnclosedOpen(p) ==
  \E i \in 1..Len(p) : p[i] = "(" /\ \A j \in (i + 1)..Len(p) : p[j] # ")"

\* Reading p left to right from byte i: a ')' met while no '(' is open.
RECURSIVE StrayCloseFrom(_, _, _)
StrayCloseFrom(p, i, open) ==
  IF i > Len(p) THEN FALSE
  ELSE IF p[i] = ")" THEN (~open \/ StrayCloseFrom(p, i + 1, FALSE))
  ELSE IF p[i] = "(" THEN StrayCloseFrom(p, i + 1, TRUE)
  ELSE StrayCloseFrom(p, i + 1, open)

StrayClose(p) == StrayCloseFrom(p, 1, FALSE)

\* C1: a pattern that contains a '(' with no ')' after it makes Matcher::new
\* return None, whatever precedes the '('.
C1_UnclosedOpenYieldsNone == (pc = "new" /\ UnclosedOpen(text)) ~> (pc = "None")

\* C2: a pattern that contains a ')' not preceded by a still-unclosed '(' makes
\* Matcher::new return None, wherever the ')' stands.
C2_StrayCloseYieldsNone == (pc = "new" /\ StrayClose(text)) ~> (pc = "None")

\* The pairs the contract of match_string describes: tokens matched one after
\* another from the start of c, each slice starting where the previous ended.
RECURSIVE ExpectedPairs(_, _, _, _)
ExpectedPairs(toks, i, c, cursor) ==
  IF i > Len(toks) THEN << >>
  ELSE
    LET token == toks[i]
        rest == SliceFrom(c, cursor)
        pair(n) == [token |-> token, str |-> SliceTo(rest, n), at |-> cursor]
    IN IF token.kind = "WildCard" THEN
         IF rest = << >> THEN << >>
         ELSE << pair(LenUtf8(rest[1])) >>
                \o ExpectedPairs(toks, i + 1, c, cursor + LenUtf8(rest[1]))
       ELSE
         LET hits == { k \in 1..Len(token.list) : StartsWith(rest, token.list[k]) }
         IN IF hits = {} THEN << >>
            ELSE LET k == CHOOSE x \in hits : \A y \in hits : x <= y
                     n == Len(token.list[k])
                 IN << pair(n) >> \o ExpectedPairs(toks, i + 1, c, cursor + n)

\* A match_string call has returned; candidate and matched_tokens are its
\* argument and result.
Returned == pc = "Some" /\ result_lens # {}

\* C3: match_string(c) returns exactly the pairs of the longest run of tokens
\* that match one after another from the start of c, each matched substring
\* starting exactly where the previous one ended.
C3_ExactGreedyPairs ==
  Returned => matched_tokens = ExpectedPairs(tokens, 1, candidate, 0)

\* The largest member of a set of naturals; 0 for the empty set.
SetMax(S) == IF S = {} THEN 0 ELSE CHOOSE x \in S : \A y \in S : y <= x

\* C4: most_tokens_matched is 0 after new and always the maximum of the result
\* lengths of the calls made so far; it never decreases, and a call changes it
\* only when its result is longer than the stored value.
C4_MostIsRunningMax ==
  /\ [](most_tokens_matched = SetMax(result_lens))
  /\ [][ /\ most_tokens_matched' >= most_tokens_matched
         /\ most_tokens_matched' # most_tokens_matched =>
              /\ Len(matched_tokens') > most_tokens_matched
              /\ most_tokens_matched' = Len(matched_tokens') ]_vars

\* C4 witness: a second call returned fewer pairs than an earlier one and the
\* counter kept the larger value.
C4_Witness ==
  /\ Returned
  /\ Cardinality(result_lens) >= 2
  /\ Len(matched_tokens) < most_tokens_matched
  /\ most_tokens_matched >= 2

RECURSIVE MatchedBytes(_)
MatchedBytes(m) == IF m = << >> THEN 0 ELSE Len(Head(m).str) + MatchedBytes(Tail(m))

\* C5: the byte lengths of the matched substrings of a result sum to at most
\* the byte length of the candidate.
C5_PrefixBounded == Returned => MatchedBytes(matched_tokens) <= Len(candidate)

\* C6: match_string never fails; a WildCard reached with no character left
\* stops the match and returns the pairs matched so far.
C6_MatchNeverFails == pc # "panic"

\* A pattern with neither a stray ')' nor an unclosed '('.
WellFormed(p) == ~StrayClose(p) /\ ~UnclosedOpen(p)

\* The maximal prefix of s holding neither '.' nor '('.
RECURSIVE LiteralRun(_)
LiteralRun(s) ==
  IF s = << >> \/ s[1] \in {".", "("} THEN << >>
  ELSE << s[1] >> \o LiteralRun(Tail(s))

\* The scan of a well-formed pattern stands at the start of a literal run.
AtLiteralRun ==
  /\ pc = "new"
  /\ WellFormed(text)
  /\ text_under_analysis # << >>
  /\ text_under_analysis[1] \notin {".", "(", ")"}

\* C7: each maximal run of characters that are neither '.' nor '(' yields one
\* RawText token holding exactly that run, and the scan resumes at the marker
\* that ends the run.
C7_LiteralRunIsOneRawText ==
  AtLiteralRun =>
    ENABLED ( /\ NewStep
              /\ tokens' = Append(tokens, RawText(LiteralRun(text_under_analysis)))
              /\ text_under_analysis' =
                   SliceFrom(text_under_analysis, Len(LiteralRun(text_under_analysis))) )

\* The scan stands at a '(' that has a ')' after it.
AtGroup ==
  /\ pc = "new"
  /\ StartsWith(text_under_analysis, << "(" >>)
  /\ Find(text_under_analysis, << ")" >>) # None

\* C8: a group yields a OneOfText holding exactly the text strictly between
\* the '(' and the first following ')' split on '|', in order, and the scan
\* resumes just past the ')'.
C8_GroupIsTextBetweenMarkers ==
  [][ AtGroup =>
        LET close == Find(text_under_analysis, << ")" >>)[1]
        IN /\ tokens' = Append(tokens,
                          OneOfText(Split(SubSeq(text_under_analysis, 2, close), "|")))
           /\ text_under_analysis' = SliceFrom(text_under_analysis, close + 1) ]_vars

\* C9: Matcher::new terminates: each iteration of the scan loop strictly
\* shortens the text still to be analysed, or returns.
C9_EachIterationShortensOrReturns ==
  pc = "new" =>
    ENABLED ( /\ NewStep
              /\ \/ Len(text_under_analysis') < Len(text_under_analysis)
                 \/ pc' \in {"Some", "None"} )

\* The words of s: the pieces between its spaces, without the empty piece
\* after a final space.
WordsOf(s) ==
  LET pieces == Split(s, " ")
  IN IF pieces[Len(pieces)] = << >> THEN SubSeq(pieces, 1, Len(pieces) - 1) ELSE pieces

\* C10: next_word returns the words of the string in order, then None on every
\* further call without error; position never passes the end of the string.
C10_WordsThenNone ==
  wpc # "off" =>
    /\ wpc # "panic"
    /\ position <= Len(string)
    /\ Len(words) <= Len(WordsOf(string))
    /\ words = SubSeq(WordsOf(string), 1, Len(words))

=============================================================================
